---------------------------- MODULE Spec2Model ----------------------------
(***************************************************************************)
(* Model of the daily activity tracker (src/app_1.py): the entry parser,   *)
(* the period inference step, the session list and the persisted CSV log.  *)
(* Text is modelled as a sequence of one-character strings.                *)
(***************************************************************************)
EXTENDS Integers, Sequences, FiniteSets

VARIABLES
    text,      \* the raw input of the last run (typed or spoken), if it had one
    result,    \* what parse_entry did with it: a return value or a raised fault
    entries,   \* st.session_state.entries: list of (time, activity, logged_at)
    df_new,    \* the frame infer_periods last produced
    csv,       \* activities.csv on disk
    op,        \* which handler ran last
    heard,     \* how recognize_speech ended in that run, if it was called
    msgs,      \* the messages that run surfaced
    now        \* the wall clock (whole ticks)

vars == <<text, result, entries, df_new, csv, op, heard, msgs, now>>

-----------------------------------------------------------------------------
(* Bounds of the model. *)

MaxLen == 4        \* longest raw input of any shape given to the parser alone
MaxRest == 3       \* longest text put after a time token for the parser alone
MaxEntries == 2    \* longest session list
MaxRows == 3       \* most rows the log is let grow to
MaxClock == 1      \* last clock tick

-----------------------------------------------------------------------------
(* Characters and strings. *)

Alphabet == {"2", "6", "h", "H", ":", " ", "\n"}

Digits == {"0", "1", "2", "3", "4", "5", "6", "7", "8", "9"}

Whitespace == {" ", "\t", "\n", "\r"}

UpperCase == <<"A", "B", "C", "D", "E", "F", "G", "H", "I", "J", "K", "L", "M",
               "N", "O", "P", "Q", "R", "S", "T", "U", "V", "W", "X", "Y", "Z">>

LowerCase == <<"a", "b", "c", "d", "e", "f", "g", "h", "i", "j", "k", "l", "m",
               "n", "o", "p", "q", "r", "s", "t", "u", "v", "w", "x", "y", "z">>

DigitChars == <<"0", "1", "2", "3", "4", "5", "6", "7", "8", "9">>

DigitValue(c) == (CHOOSE i \in 1..10 : DigitChars[i] = c) - 1

Strings(n) == UNION {[1..k -> Alphabet] : k \in 0..n}

Drop(s, k) == SubSeq(s, k + 1, Len(s))

Take(s, k) == SubSeq(s, 1, k)

(* str.lower() *)
lower(s) ==
    [i \in 1..Len(s) |->
        IF \E k \in 1..26 : UpperCase[k] = s[i]
        THEN LowerCase[CHOOSE k \in 1..26 : UpperCase[k] = s[i]]
        ELSE s[i]]

(* Length of the longest prefix of s whose characters are all in set S,
   at most cap characters long: a greedy bounded repetition. *)
RECURSIVE Run(_, _, _)
Run(s, S, cap) ==
    IF cap = 0 \/ s = <<>> \/ s[1] \notin S THEN 0
    ELSE 1 + Run(Tail(s), S, cap - 1)

(* Length of the longest prefix of s with no character of S. *)
RECURSIVE RunExcept(_, _)
RunExcept(s, S) ==
    IF s = <<>> \/ s[1] \in S THEN 0 ELSE 1 + RunExcept(Tail(s), S)

Reverse(s) == [i \in 1..Len(s) |-> s[Len(s) + 1 - i]]

(* str.strip() *)
strip(s) ==
    LET lead == Run(s, Whitespace, Len(s))
        rest == Drop(s, lead)
        trail == Run(Reverse(rest), Whitespace, Len(rest))
    IN  Take(rest, Len(rest) - trail)

(* Variant: the replacement is left out. *)
replace_nothing(s, old, new) == s

(* str.replace(old, new) for one-character old and new *)
replace(s, old, new) == [i \in 1..Len(s) |-> IF s[i] = old THEN new ELSE s[i]]

-----------------------------------------------------------------------------
(* re.match of the pattern  ( \d{1,2} sep \d{0,2} ) \s* ( .* )  at the start
   of s, its two groups returned: the two patterns differ in the separator
   only.  \d{1,2} is greedy and backtracks to one digit when the separator
   does not follow two; \d{0,2}, \s* and .* never need to give
   anything back because what follows them can match the empty string.
   "." does not match a line feed. *)
re_match(sep, s) ==
    LET h2 == Run(s, Digits, 2)
        hl == IF h2 = 2 /\ Len(s) >= 3 /\ s[3] = sep THEN 2
              ELSE IF h2 >= 1 /\ Len(s) >= 2 /\ s[2] = sep THEN 1
              ELSE 0
        ml == Run(Drop(s, hl + 1), Digits, 2)
        after == Drop(s, hl + 1 + ml)
        ws == Run(after, Whitespace, Len(after))
        tail == Drop(after, ws)
        dot == RunExcept(tail, {"\n"})
    IN  IF hl = 0
        THEN [matched |-> FALSE, time_str |-> <<>>, activity |-> <<>>]
        ELSE [matched |-> TRUE,
              time_str |-> Take(s, hl + 1 + ml),
              activity |-> Take(tail, dot)]

pattern_1(s) == re_match("h", s)

(* Variant: the second pattern accepts either separator. *)
pattern_2_either_separator(s) ==
    IF re_match(":", s).matched THEN re_match(":", s) ELSE re_match("h", s)

pattern_2(s) == re_match(":", s)

(* datetime.strptime(time_str, "%H:%M"): the format compiles to the regular
   expression (2[0-3]|[0-1]\d|\d):([0-5]\d|\d), matched at the start of the
   text; a match that leaves text unconverted is an error as well. *)
strptime(time_str) ==
    LET D(i) == i <= Len(time_str) /\ time_str[i] \in Digits
        V(i) == DigitValue(time_str[i])
        Colon(i) == i <= Len(time_str) /\ time_str[i] = ":"
        hourAlts ==
            \* <<length, value>> of each alternative of %H that matches, in order
            (IF D(1) /\ D(2) /\ V(1) = 2 /\ V(2) <= 3 THEN <<(<<2, 20 + V(2)>>)>> ELSE <<>>)
            \o (IF D(1) /\ D(2) /\ V(1) <= 1 THEN <<(<<2, 10 * V(1) + V(2)>>)>> ELSE <<>>)
            \o (IF D(1) THEN <<(<<1, V(1)>>)>> ELSE <<>>)
        usable == SelectSeq(hourAlts, LAMBDA a : Colon(a[1] + 1))
        hl == usable[1][1]
        m1 == hl + 2
        minute ==
            IF D(m1) /\ D(m1 + 1) /\ V(m1) <= 5 THEN <<2, 10 * V(m1) + V(m1 + 1)>>
            ELSE IF D(m1) THEN <<1, V(m1)>>
            ELSE <<0, 0>>
    IN  IF usable = <<>> \/ minute[1] = 0 \/ hl + 1 + minute[1] # Len(time_str)
        THEN [ok |-> FALSE, hour |-> 0, minute |-> 0]
        ELSE [ok |-> TRUE, hour |-> usable[1][2], minute |-> minute[2]]

TwoDigits(n) == <<DigitChars[(n \div 10) + 1], DigitChars[(n % 10) + 1]>>

(* Variant: hour and minute without zero padding. *)
strftime_unpadded(hour, minute) ==
    LET Plain(n) == IF n < 10 THEN <<DigitChars[n + 1]>> ELSE TwoDigits(n)
    IN  Plain(hour) \o <<":">> \o Plain(minute)

(* datetime.strftime("%H:%M") *)
strftime(hour, minute) == TwoDigits(hour) \o <<":">> \o TwoDigits(minute)

None == [some |-> FALSE, val |-> <<>>]

Some(v) == [some |-> TRUE, val |-> v]

(* Variant: the time token is taken over without validation. *)
normalise_unchecked(time_str) == Some(time_str)

(* try: t = strptime(...).strftime(...)  except: t = None *)
normalise(time_str) ==
    LET p == strptime(time_str)
    IN  IF p.ok THEN Some(strftime(p.hour, p.minute)) ELSE None

Returned(t, activity) == [raised |-> FALSE, t |-> t, activity |-> activity]

Raised == [raised |-> TRUE, t |-> None, activity |-> <<>>]

(* parse_entry(text).  The locals t and activity are bound only inside the
   two "if match" blocks; the return statement reads them unconditionally,
   so with no block entered it raises UnboundLocalError. *)
parse_entry(raw) ==
    LET s == lower(strip(raw))
        unbound == [bound |-> FALSE, t |-> None, activity |-> <<>>]
        m1 == pattern_1(s)
        after1 ==
            IF m1.matched
            THEN [bound |-> TRUE,
                  t |-> normalise(replace(m1.time_str, "h", ":")),
                  activity |-> m1.activity]
            ELSE unbound
        m2 == pattern_2(s)
        after2 ==
            IF m2.matched
            THEN [bound |-> TRUE,
                  t |-> normalise(m2.time_str),
                  activity |-> m2.activity]
            ELSE after1
    IN  IF after2.bound
        THEN Returned(after2.t, strip(after2.activity))
        ELSE Raised

-----------------------------------------------------------------------------
(* The parser on its own: every raw input of up to MaxLen characters, and
   every time token, well-formed or not, followed by up to MaxRest
   characters. *)

DigitStrings(lo, hi) == UNION {[1..k -> Alphabet \cap Digits] : k \in lo..hi}

TimeTokens ==
    {h \o <<sep>> \o m :
        h \in DigitStrings(1, 2), sep \in {"h", "H", ":"}, m \in DigitStrings(0, 2)}

IsRawInput(raw) ==
    \/ raw \in Strings(MaxLen)
    \/ \E t \in TimeTokens : \E r \in Strings(MaxRest) : raw = t \o r

Pending == [raised |-> FALSE, t |-> None, activity |-> <<"?">>]

ParseInit ==
    /\ IsRawInput(text)
    /\ result = Pending
    /\ entries = <<>>
    /\ df_new = <<>>
    /\ csv = [state |-> "missing", rows |-> <<>>]
    /\ op = "none"
    /\ heard = "n/a"
    /\ msgs = {}
    /\ now = 0

Parse ==
    /\ op = "none"
    /\ op' = "parse"
    /\ result' = parse_entry(text)
    /\ UNCHANGED <<text, entries, df_new, csv, heard, msgs, now>>

ParseNext == Parse

ParseSpec == ParseInit /\ [][ParseNext]_vars

-----------------------------------------------------------------------------
(* infer_periods(entries): one row per entry, in the order given.  The loop
   also computes the next entry's time as end_time and never uses it. *)
RECURSIVE infer_loop(_, _, _)
infer_loop(es, i, data) ==
    IF i > Len(es) THEN data
    ELSE LET start_time == es[i][1]
             activity == es[i][2]
             logged_at == es[i][3]
             end_time == IF i + 1 <= Len(es) THEN es[i + 1][1] ELSE <<>>
         IN  infer_loop(es, i + 1,
                        Append(data, <<start_time, activity, <<>>, logged_at>>))

Columns == <<"Start", "Activity", "Comments", "Logged at">>

(* pd.DataFrame(data, columns=[...]): the rows, each a record by column name *)
DataFrame(data) ==
    [i \in 1..Len(data) |->
        [Start |-> data[i][1], Activity |-> data[i][2],
         Comments |-> data[i][3], LoggedAt |-> data[i][4]]]

(* Variant: the loop stops before the last entry, the one with no successor. *)
infer_periods_without_last(es) ==
    DataFrame(infer_loop(SubSeq(es, 1, Len(es) - 1), 1, <<>>))

infer_periods(es) == DataFrame(infer_loop(es, 1, <<>>))

(* The pure function on its own: every list of up to MaxEntries entries. *)

SampleTimes == {<<"0", "2", ":", "0", "6">>, <<"0", "6", ":", "0", "2">>,
                <<"2", "2", ":", "2", "6">>}

SampleLabels == {<<>>, <<"h">>, <<"2", "6">>}

SampleEntries == SampleTimes \X SampleLabels \X (0..MaxClock)

InferInit ==
    /\ entries \in UNION {[1..n -> SampleEntries] : n \in 0..MaxEntries}
    /\ df_new = <<>>
    /\ text = <<>>
    /\ result = Pending
    /\ csv = [state |-> "missing", rows |-> <<>>]
    /\ op = "none"
    /\ heard = "n/a"
    /\ msgs = {}
    /\ now = 0

Infer ==
    /\ op = "none"
    /\ op' = "infer"
    /\ df_new' = infer_periods(entries)
    /\ UNCHANGED <<text, result, entries, csv, heard, msgs, now>>

InferNext == Infer

InferSpec == InferInit /\ [][InferNext]_vars

-----------------------------------------------------------------------------
(* activities.csv.  The file is text: each row holds the text of its Start,
   Activity and Comments cells; the "Logged at" cell is the clock tick whose
   "%Y-%m-%d %H:%M:%S" text it stands for, which pandas reads back as the same
   text.  state is "missing" (no file), "ok" (header and rows) or "empty" (a
   file of no bytes, left by a write that failed after opening it). *)

(* The cell texts pandas.read_csv takes for a missing value by default *)
NaValues ==
    {<<>>, <<"n", "a", "n">>, <<"N", "a", "N">>, <<"N", "A">>, <<"n", "/", "a">>,
     <<"N", "/", "A">>, <<"n", "u", "l", "l">>, <<"N", "U", "L", "L">>,
     <<"N", "o", "n", "e">>, <<"-", "n", "a", "n">>, <<"-", "N", "a", "N">>,
     <<"<", "N", "A", ">">>, <<"#", "N", "A">>, <<"#", "N", "/", "A">>}

(* A cell text read_csv converts to a number.  Of the number syntax only the
   digits occur in the texts this model writes. *)
IsNumber(c) == c # <<>> /\ \A i \in 1..Len(c) : c[i] \in Digits

RECURSIVE ToInt(_)
ToInt(c) ==
    IF c = <<>> THEN 0
    ELSE 10 * ToInt(SubSeq(c, 1, Len(c) - 1)) + DigitValue(c[Len(c)])

NaN == [kind |-> "nan", s |-> <<>>, n |-> 0]

Str(c) == [kind |-> "str", s |-> c, n |-> 0]

(* read_csv's type inference for one column of cell texts: missing values
   become NaN; if every other cell is a number the column is numeric, int64
   without missing values and float64 with them; otherwise the cells stay
   text. *)
infer_column(cells) ==
    LET present == {i \in 1..Len(cells) : cells[i] \notin NaValues}
        numeric == present # {} /\ \A i \in present : IsNumber(cells[i])
        kind == IF present = 1..Len(cells) THEN "int" ELSE "float"
    IN  [i \in 1..Len(cells) |->
            IF i \notin present THEN NaN
            ELSE IF numeric THEN [kind |-> kind, s |-> <<>>, n |-> ToInt(cells[i])]
            ELSE Str(cells[i])]

(* pd.read_csv("activities.csv") if the file exists, else an empty frame *)
read_csv(file) ==
    LET n == Len(file.rows)
        start == infer_column([i \in 1..n |-> file.rows[i].Start])
        activity == infer_column([i \in 1..n |-> file.rows[i].Activity])
        comments == infer_column([i \in 1..n |-> file.rows[i].Comments])
    IN  [i \in 1..Len(file.rows) |->
            [Start |-> start[i], Activity |-> activity[i],
             Comments |-> comments[i], LoggedAt |-> file.rows[i].LoggedAt]]

RECURSIVE Decimal(_)
Decimal(n) ==
    IF n < 10 THEN <<DigitChars[n + 1]>>
    ELSE Decimal(n \div 10) \o <<DigitChars[(n % 10) + 1]>>

(* How to_csv writes one cell: text as it is, NaN as nothing, an int in
   decimal, a float (here always whole) with its ".0". *)
cell_text(c) ==
    CASE c.kind = "str" -> c.s
      [] c.kind = "nan" -> <<>>
      [] c.kind = "int" -> Decimal(c.n)
      [] c.kind = "float" -> Decimal(c.n) \o <<".", "0">>

(* df.to_csv("activities.csv", index=False): the rows as text *)
to_csv(df) ==
    [i \in 1..Len(df) |->
        [Start |-> cell_text(df[i].Start), Activity |-> cell_text(df[i].Activity),
         Comments |-> cell_text(df[i].Comments), LoggedAt |-> df[i].LoggedAt]]

(* The frame infer_periods builds holds Python strings *)
as_frame(rows) ==
    [i \in 1..Len(rows) |->
        [Start |-> Str(rows[i].Start), Activity |-> Str(rows[i].Activity),
         Comments |-> Str(rows[i].Comments), LoggedAt |-> rows[i].LoggedAt]]

(* pd.concat([df_existing, df_new], ignore_index=True) *)
concat(df_existing, new) == df_existing \o as_frame(new)

-----------------------------------------------------------------------------
(* The application: one action per press of a button, which reruns the whole
   script. *)

(* What the user types or says *)
Utterances ==
    {<<"2", "h", "6">>,                          \* a time, no label
     <<"6", ":", "2", "6", " ", "2", "6">>,      \* a time, a label of digits
     <<"2", "6", "h", "2", " ", "H">>,           \* hour above 23
     <<"6", "h">>,                               \* an hour without minutes
     <<"h", " ", "2", "6">>,                     \* no time at the start
     <<" ">>,                                    \* blank
     <<>>}                                       \* nothing

(* Room left in the explored log for one more entry of the session *)
Room == Len(entries) < MaxEntries /\ Len(csv.rows) + Len(entries) < MaxRows

Init ==
    /\ text = <<>>
    /\ result = Pending
    /\ entries = <<>>
    /\ df_new = <<>>
    /\ csv = [state |-> "missing", rows |-> <<>>]
    /\ op = "none"
    /\ heard = "n/a"
    /\ msgs = {}
    /\ now = 0

(* Line 81-84 of every run: an existing file is read in full.  A file of no
   bytes makes read_csv raise, which ends the run before any handler. *)
Loadable == csv.state # "empty"

LoadFault ==
    /\ ~Loadable
    /\ op' = "load"
    /\ msgs' = {"exception"}
    /\ heard' = "n/a"
    /\ text' = <<>>
    /\ result' = Pending
    /\ UNCHANGED <<entries, df_new, csv, now>>

(* "if text:" / "if manual_entry:" *)
truthy_text(t) == t # <<>>

(* Variant: the result is appended whether or not it holds a time. *)
accepted_always(r) == TRUE

(* "if time_str:" *)
accepted(r) == r.t.some

(* The body shared by the two add handlers once they hold a text: parse it,
   append an entry stamped with the current time or warn.  A fault raised by
   parse_entry ends the run. *)
add_from_text(t, stamp, said) ==
    IF ~truthy_text(t)
    THEN /\ result' = Pending
         /\ entries' = entries
         /\ msgs' = said
    ELSE \E r \in {parse_entry(t)} :
             /\ result' = r
             /\ IF r.raised
                THEN entries' = entries /\ msgs' = said \cup {"exception"}
                ELSE IF accepted(r)
                THEN /\ entries' = Append(entries, <<r.t.val, r.activity, stamp>>)
                     /\ msgs' = said
                ELSE entries' = entries /\ msgs' = said \cup {"warning"}

(* The "Add Entry" button with manual_entry = t *)
AddEntry(t, stamp) ==
    /\ Loadable
    /\ Room
    /\ op' = "add"
    /\ heard' = "n/a"
    /\ text' = t
    /\ now' = stamp
    /\ add_from_text(t, stamp, {})
    /\ UNCHANGED <<df_new, csv>>

(* The "Voice Input" button when recognize_speech returns the text t it
   heard, after showing it. *)
VoiceInput(t, stamp) ==
    /\ Loadable
    /\ Room
    /\ op' = "voice"
    /\ heard' = "text"
    /\ text' = t
    /\ now' = stamp
    /\ add_from_text(t, stamp, {"success"})
    /\ UNCHANGED <<df_new, csv>>

(* The "Voice Input" button when recognize_google raises UnknownValueError
   or RequestError: recognize_speech shows an error and returns None. *)
VoiceFailed(error, stamp) ==
    /\ Loadable
    /\ op' = "voice"
    /\ heard' = error
    /\ text' = <<>>
    /\ result' = Pending
    /\ now' = stamp
    /\ msgs' = {"error"}
    /\ UNCHANGED <<entries, df_new, csv>>

(* Variant: the session list is emptied before the file is written. *)
session_cleared_before_write(es, written) == <<>>

(* Line 125-127: the session list is emptied after to_csv has returned *)
session_after_save(es, written) == IF written THEN <<>> ELSE es

(* What a to_csv that raises may leave on disk: the old file (it could not
   be opened), a file of no bytes, or the header and the first rows. *)
FailedWrites(old, rows) ==
    {old, [state |-> "empty", rows |-> <<>>]}
        \cup {[state |-> "ok", rows |-> SubSeq(rows, 1, k)] : k \in 0..(Len(rows) - 1)}

(* The "Save Day's Table" button, shown while the session list is not
   empty.  written says whether to_csv returned or raised. *)
SaveDay(written) ==
    /\ Loadable
    /\ entries # <<>>
    /\ Len(csv.rows) + Len(entries) <= MaxRows
    /\ op' = "save"
    /\ heard' = "n/a"
    /\ LET df_existing == read_csv(csv)
           new == infer_periods(entries)
           df_final == concat(df_existing, new)
       IN  /\ df_new' = new
           /\ IF written
              THEN /\ csv' = [state |-> "ok", rows |-> to_csv(df_final)]
                   /\ msgs' = {"success"}
              ELSE /\ csv' \in FailedWrites(csv, to_csv(df_final))
                   /\ msgs' = {"exception"}
    /\ entries' = session_after_save(entries, written)
    /\ text' = <<>>
    /\ result' = Pending
    /\ UNCHANGED now

Next ==
    \/ \E t \in Utterances, stamp \in now..MaxClock : AddEntry(t, stamp)
    \/ \E t \in Utterances, stamp \in now..MaxClock : VoiceInput(t, stamp)
    \/ \E error \in {"UnknownValueError", "RequestError"}, stamp \in now..MaxClock :
          VoiceFailed(error, stamp)
    \/ \E written \in BOOLEAN : SaveDay(written)
    \/ LoadFault

Spec == Init /\ [][Next]_vars

-----------------------------------------------------------------------------
(* Vocabulary of the statements about the parser.  These are written from
   the statements, independently of the definitions above. *)

AllDigits(s) == \A i \in 1..Len(s) : s[i] \in Digits

RECURSIVE NumVal(_)
NumVal(s) ==
    IF s = <<>> THEN 0
    ELSE 10 * NumVal(SubSeq(s, 1, Len(s) - 1)) + DigitValue(s[Len(s)])

NonBlank(s) == {i \in 1..Len(s) : s[i] \notin Whitespace}

Least(S) == CHOOSE x \in S : \A y \in S : x <= y

Greatest(S) == CHOOSE x \in S : \A y \in S : x >= y

(* s with leading and trailing whitespace removed *)
Trimmed(s) ==
    IF NonBlank(s) = {} THEN <<>>
    ELSE SubSeq(s, Least(NonBlank(s)), Greatest(NonBlank(s)))

LowerCased(s) ==
    [i \in 1..Len(s) |->
        IF \E k \in 1..26 : UpperCase[k] = s[i]
        THEN LowerCase[CHOOSE k \in 1..26 : UpperCase[k] = s[i]]
        ELSE s[i]]

(* What is left of s after its leading whitespace, up to the first line feed *)
FirstLine(s) ==
    IF NonBlank(s) = {} THEN <<>>
    ELSE LET from == Least(NonBlank(s))
             feeds == {i \in from..Len(s) : s[i] = "\n"}
         IN  SubSeq(s, from, IF feeds = {} THEN Len(s) ELSE Least(feeds) - 1)

(* The ways to read t as <1-2 digits> sep <0-2 digits> <rest>: the lengths
   <<hl, ml>> of the hour and minute digits. *)
Forms(sep, t) ==
    {f \in (1..2) \X (0..2) :
        /\ Len(t) >= f[1] + 1 + f[2]
        /\ AllDigits(SubSeq(t, 1, f[1]))
        /\ t[f[1] + 1] = sep
        /\ AllDigits(SubSeq(t, f[1] + 2, f[1] + 1 + f[2]))}

HourOf(t, f) == SubSeq(t, 1, f[1])

MinuteOf(t, f) == SubSeq(t, f[1] + 2, f[1] + 1 + f[2])

RestOf(t, f) == SubSeq(t, f[1] + 2 + f[2], Len(t))

(* The reading that takes as many minute digits as there are, up to two *)
Greedy(t, f) == f[2] = 2 \/ RestOf(t, f) = <<>> \/ RestOf(t, f)[1] \notin Digits

(* Hour and minute digits that form a 24-hour time of day *)
ValidClock(hd, md) == md # <<>> /\ NumVal(hd) <= 23 /\ NumVal(md) <= 59

OutOfRange(hd, md) == NumVal(hd) > 23 \/ NumVal(md) > 59

Pad2(d) == IF Len(d) = 1 THEN <<"0">> \o d ELSE d

ClockText(hd, md) == Pad2(hd) \o <<":">> \o Pad2(md)

Parsed == op = "parse"

(* The statement of C1 and C2 as made, for the greedy reading of the input:
   a valid time followed by a rest yields that time and the rest, trimmed. *)
TimeAndRest(sep) ==
    Parsed =>
        \A f \in Forms(sep, text) :
            ValidClock(HourOf(text, f), MinuteOf(text, f)) /\ Greedy(text, f) =>
                result = Returned(Some(ClockText(HourOf(text, f), MinuteOf(text, f))),
                                  Trimmed(RestOf(text, f)))

(* The same for the greedy reading, the label lower-cased and cut at the
   first line feed after its first non-blank character. *)
TimeAndFoldedLine(sep) ==
    Parsed =>
        \A f \in Forms(sep, text) :
            ValidClock(HourOf(text, f), MinuteOf(text, f)) /\ Greedy(text, f) =>
                result = Returned(Some(ClockText(HourOf(text, f), MinuteOf(text, f))),
                                  Trimmed(FirstLine(LowerCased(RestOf(text, f)))))

(* A state in which the parser has returned a time and a non-empty label that
   had upper-case letters, for an input in notation sep *)
ParsedValid(sep) ==
    /\ Parsed
    /\ \E f \in Forms(sep, text) :
          /\ ValidClock(HourOf(text, f), MinuteOf(text, f))
          /\ Greedy(text, f)
          /\ RestOf(text, f) # LowerCased(RestOf(text, f))
    /\ ~result.raised /\ result.t.some /\ result.activity # <<>>

C2_AsStated == TimeAndRest(":")

\* C2 (amended): every input <1-2 digits>:<1-2 digits><rest>, the minute
\* digits read greedily and forming a valid 24-hour time with the hour,
\* parses to that time as HH:MM and to the label that is <rest> lower-cased,
\* cut at the first line feed after its first non-blank character, trimmed.
C2_NotationB == TimeAndFoldedLine(":")

C2_Witness == ParsedValid(":")

(* The input, trimmed and lower-cased, starts with a time token in notation sep *)
Matches(sep, t) == Forms(sep, LowerCased(Trimmed(t))) # {}

\* C3: an input that matches neither notation (the empty and the blank input
\* included) makes parse_entry return (absent, "") and never raise.
C3_NoMatchReturnsAbsent ==
    Parsed /\ ~Matches("h", text) /\ ~Matches(":", text) =>
        result = Returned(None, <<>>)

(* The statement of C4 for the label taken from the input as typed (folded =
   FALSE) or from the lower-cased input up to the first line feed (TRUE). *)
OutOfRangeAbsent(folded) ==
    Parsed =>
        \A s \in {Trimmed(text)} : \A t \in {LowerCased(s)} :
            \A sep \in {"h", ":"} : \A f \in Forms(sep, t) :
                Greedy(t, f) /\ OutOfRange(HourOf(t, f), MinuteOf(t, f)) =>
                    result = Returned(None,
                                IF folded THEN Trimmed(FirstLine(RestOf(t, f)))
                                ELSE Trimmed(RestOf(s, f)))

\* C4 (as stated): an input that matches a notation with hour > 23 or
\* minute > 59 parses to an absent time and the trimmed text that followed
\* the time token, without a fault.
C4_AsStated == OutOfRangeAbsent(FALSE)

\* C4 (amended): an input that matches a notation with hour > 23 or
\* minute > 59 parses, without a fault, to an absent time and the text that
\* followed the time token, lower-cased, cut at the first line feed after its
\* first non-blank character, trimmed.
C4_OutOfRange == OutOfRangeAbsent(TRUE)

C4_Witness ==
    /\ Parsed
    /\ \E sep \in {"h", ":"} :
          LET t == LowerCased(Trimmed(text))
          IN  \E f \in Forms(sep, t) :
                 /\ Greedy(t, f)
                 /\ NumVal(HourOf(t, f)) > 23
                 /\ RestOf(t, f) # <<>>
    /\ ~result.raised /\ ~result.t.some /\ result.activity # <<>>

\* C9: no input matches both notations, so the second attempt of parse_entry
\* never replaces a time or label the first attempt produced.
C9_Disjoint ==
    Parsed =>
        \E s \in {lower(strip(text))} : \E first \in {pattern_1(s)} :
            /\ ~(first.matched /\ pattern_2(s).matched)
            /\ first.matched =>
                  result = Returned(normalise(replace(first.time_str, "h", ":")),
                                    strip(first.activity))

C9_Witness ==
    /\ Parsed
    /\ pattern_1(lower(strip(text))).matched
    /\ result.t.some

-----------------------------------------------------------------------------
(* Vocabulary of the statements about the session list and the log. *)

(* The record the statements expect for the entry e = (time, label,
   captured_at) *)
RecordOf(e) == [Start |-> e[1], Activity |-> e[2], Comments |-> <<>>, LoggedAt |-> e[3]]

RecordsOf(es) == [i \in 1..Len(es) |-> RecordOf(es[i])]

(* Minutes since midnight of a text HH:MM *)
ClockMinutes(t) == 60 * NumVal(SubSeq(t, 1, 2)) + NumVal(SubSeq(t, 4, 5))

(* t is a zero-padded 24-hour time of day HH:MM *)
IsClockText(t) ==
    /\ Len(t) = 5
    /\ t[3] = ":"
    /\ \A i \in {1, 2, 4, 5} : t[i] \in Digits
    /\ NumVal(SubSeq(t, 1, 2)) <= 23
    /\ NumVal(SubSeq(t, 4, 5)) <= 59

\* C5: infer_periods returns one record per entry, in the order given and
\* unsorted: record i has Start, Activity and Logged at of entry i and an
\* empty Comments; the empty list gives the empty frame.
C5_InferKeepsOrder ==
    op = "infer" =>
        /\ Len(df_new) = Len(entries)
        /\ \A i \in 1..Len(entries) : df_new[i] = RecordOf(entries[i])

C5_Witness ==
    /\ op = "infer"
    /\ Len(entries) >= 2
    /\ ClockMinutes(entries[1][1]) > ClockMinutes(entries[2][1])
    /\ entries[1][3] # entries[2][3]
    /\ Len(df_new) = Len(entries)

SaveSucceeded == op = "save" /\ "success" \in msgs

SaveFailed == op = "save" /\ "exception" \in msgs

\* C6: a successful save of a session of n entries leaves the log equal to
\* the log before it followed by the n records of the session, in order, no
\* earlier row altered, and leaves the session list empty.
C6_SaveAppends ==
    [][SaveSucceeded' =>
          /\ csv'.rows = csv.rows \o RecordsOf(entries)
          /\ entries' = <<>>]_vars

(* The input of an add run that the statements say is rejected: speech that
   could not be transcribed, a text (not the empty one, for which the
   handlers do nothing at all) in neither notation, or a text whose time
   token is not a valid 24-hour time. *)
RejectedInput ==
    /\ op \in {"add", "voice"}
    /\ \/ heard \in {"UnknownValueError", "RequestError"}
       \/ text # <<>> /\ ~Matches("h", text) /\ ~Matches(":", text)
       \/ \E sep \in {"h", ":"} :
             LET t == LowerCased(Trimmed(text))
             IN  \E f \in Forms(sep, t) :
                    Greedy(t, f) /\ ~ValidClock(HourOf(t, f), MinuteOf(t, f))

\* C7: an add action, typed or spoken, whose input matches no notation,
\* fails the 24-hour validation or could not be transcribed surfaces a
\* warning or an error message and leaves the session list and the log as
\* they were.
C7_RejectedInputWarns ==
    [][RejectedInput' =>
          /\ msgs' \cap {"warning", "error"} # {}
          /\ entries' = entries
          /\ csv' = csv]_vars

\* C8: every entry of the session list and every row of the log holds a
\* valid 24-hour time in zero-padded HH:MM form; no absent, empty or partial
\* time is ever stored.
C8_StoredTimesValid ==
    /\ \A i \in 1..Len(entries) : IsClockText(entries[i][1])
    /\ \A i \in 1..Len(csv.rows) : IsClockText(csv.rows[i].Start)

C8_Witness ==
    /\ entries # <<>>
    /\ csv.rows # <<>>
    /\ op = "add"
    /\ text = <<"6", "h">>
    /\ "warning" \in msgs

\* C10: only a successful save discards the session list: after a save whose
\* write of the file failed the session list holds the same entries in the
\* same order, and the list never loses an entry in any other way.
C10_FailedSaveKeepsSession ==
    [][/\ SaveFailed' => entries' = entries
       /\ Len(entries') < Len(entries) => SaveSucceeded']_vars

C10_Witness ==
    /\ SaveFailed
    /\ Len(entries) >= 2
    /\ csv.state = "ok"
    /\ Len(csv.rows) >= 1

=============================================================================
